---- MODULE Spec2Model ----
(***************************************************************************)
(* Model of the spectral convolution engine (src/src/convolution/mod.rs)   *)
(* and of the forward-modelling pipeline built on it                       *)
(* (src/src/forward_modelling/mod.rs).                                     *)
(*                                                                         *)
(* Numbers.  Samples are f64 in the code; here they are integers, on which *)
(* every product and sum of the code is exact.  A complex number is a pair *)
(* <<re, im>>.  The transform lengths 1, 2 and 4 have their roots of unity *)
(* in the Gaussian integers, so the discrete Fourier transform is computed *)
(* exactly for them (UnitRoot).                                            *)
(*                                                                         *)
(* Reading of the source.  Misspelt identifiers that have no meaning as    *)
(* written (printn!, refectivity_model, self.sonfig, estimate_signal_len,  *)
(* ...) are read as the identifier they misspell.  Statements that are     *)
(* well-formed Rust are read as written: the body of the loop of           *)
(* next_power_of_2 is the expression statement `power<=1;`, a comparison   *)
(* whose value is dropped, and not the shift `power<<=1`.                  *)
(***************************************************************************)
EXTENDS Integers, Sequences, FiniteSets, TLC

\* ------------------------------------------------------------------ bounds

\* Loop iterations of next_power_of_2 that the counter iters tells apart.
MaxIter == 3

\* Largest argument of a direct call of next_power_of_2.
MaxN == 9

\* Largest num_realizations of a run_monte_carlo call.
MaxRealizations == 2

\* Longest trace add_noise_to_trace is applied to.
MaxNoiseLen == 3

\* Largest window_size handed to apply_moving_average.
MaxWindow == 4

\* Largest length handed to RickerWavelet::new.
MaxLength == 3

\* Signals handed to the engine: empty, one sample, and longer ones, among
\* them the operands of test_simple_convolution and test_symmetry.
Signals ==
  { <<>>, <<2>>, <<-3>>, <<1, 2>>, <<4, 5>>, <<1, 0, 0>>, <<1, 2, 3>> }

\* fastrand::f64() draws from [0, 1); the draws modelled are 0/2 and 1/2,
\* kept as their numerators.
Rand == {0, 1}

\* --------------------------------------------------------------- helpers

Min(x, y) == IF x < y THEN x ELSE y

Abs(x) == IF x < 0 THEN -x ELSE x

RECURSIVE SumSeq(_)
SumSeq(s) == IF s = <<>> THEN 0 ELSE Head(s) + SumSeq(Tail(s))

\* iter().map(|x| x*x).sum()
SumSq(s) == SumSeq([i \in 1..Len(s) |-> s[i] * s[i]])

\* f64::sqrt on the values met here: the integer square root.
ISqrt(x) == CHOOSE r \in 0..x : r * r <= x /\ (r + 1) * (r + 1) > x

\* ------------------------------------------------------- complex numbers

CAdd(x, y) == <<x[1] + y[1], x[2] + y[2]>>

CMul(x, y) == <<x[1] * y[1] - x[2] * y[2], x[1] * y[2] + x[2] * y[1]>>

CConj(x) == <<x[1], -x[2]>>

\* exp(2 pi i e / len) for len in {1, 2, 4}, e >= 0.
UnitRoot(len, e) ==
  LET q == ((e % len) * (4 \div len)) % 4
  IN  CASE (4 % len = 0) /\ q = 0 -> <<1, 0>>
        [] (4 % len = 0) /\ q = 1 -> <<0, 1>>
        [] (4 % len = 0) /\ q = 2 -> <<-1, 0>>
        [] (4 % len = 0) /\ q = 3 -> <<0, -1>>

\* Term m of bin k of a transform of length len:
\* buffer[m] * exp(sign 2 pi i m k / len); buffer[m] is the sequence's
\* element m + 1.
DftTerm(buffer, len, k, sign, m) ==
  CMul(buffer[m + 1],
       UnitRoot(len, IF sign > 0 THEN (m * k) % len
                                 ELSE (len - ((m * k) % len)) % len))

RECURSIVE DftSum(_, _, _, _, _, _)
\* Part part (1 real, 2 imaginary) of bin k: the sum of the terms 0..upto.
DftSum(buffer, len, k, sign, part, upto) ==
  IF upto < 0 THEN 0
  ELSE DftSum(buffer, len, k, sign, part, upto - 1)
         + DftTerm(buffer, len, k, sign, upto)[part]

RECURSIVE DftBins(_, _, _, _)
\* Bins 0..k of the transform, as a sequence.
DftBins(buffer, len, sign, k) ==
  IF k < 0 THEN <<>>
  ELSE Append(DftBins(buffer, len, sign, k - 1),
              <<DftSum(buffer, len, k, sign, 1, len - 1),
                DftSum(buffer, len, k, sign, 2, len - 1)>>)

\* plan_fft_forward(len).process(buffer): the unnormalised forward transform.
FftForward(buffer, len) == DftBins(buffer, len, -1, len - 1)

\* plan_fft_inverse(len).process(buffer): the unnormalised inverse transform.
FftInverse(buffer, len) == DftBins(buffer, len, 1, len - 1)

\* ------------------------------------------------------ ConvolutionEngine

\* prepare_fft_buffer: the samples as complex numbers, resized to fft_len.
prepare_fft_buffer(signal, fft_len) ==
  [i \in 1..fft_len |->
     IF i <= Len(signal) THEN <<signal[i], 0>> ELSE <<0, 0>>]

\* c.re * normalization_factor, normalization_factor = 1.0 / fft_len.
Normalize(re, fft_len) == re \div fft_len

\* The frequency-domain product of convolve: a * b.
ConvolveProduct(x, y) == CMul(x, y)

\* The frequency-domain product of cross_correlate: a.conj() * b.
CorrelateProduct(x, y) == CMul(CConj(x), y)

\* convolve, from the transforms on, with fft_len as next_power_of_2 gave it.
\* Its plan and buffer lines (41-42) run into one another in the source; they
\* are read as the same lines of cross_correlate (86-90), which names the
\* plans and buffers that the rest of convolve uses.
ConvolveBody(signal_a, signal_b, fft_len) ==
  LET output_len == Len(signal_a) + Len(signal_b) - 1
      buffer_a == FftForward(prepare_fft_buffer(signal_a, fft_len), fft_len)
      buffer_b == FftForward(prepare_fft_buffer(signal_b, fft_len), fft_len)
      product == [k \in 1..fft_len |-> ConvolveProduct(buffer_a[k], buffer_b[k])]
      result_buffer == FftInverse(product, fft_len)
  IN  [i \in 1..Min(output_len, fft_len) |->
         Normalize(result_buffer[i][1], fft_len)]

\* cross_correlate, from the transforms on.
CrossCorrelateBody(signal_a, signal_b, fft_len) ==
  LET output_len == Len(signal_a) + Len(signal_b) - 1
      buffer_a == FftForward(prepare_fft_buffer(signal_a, fft_len), fft_len)
      buffer_b == FftForward(prepare_fft_buffer(signal_b, fft_len), fft_len)
      product == [k \in 1..fft_len |-> CorrelateProduct(buffer_a[k], buffer_b[k])]
      result_buffer == FftInverse(product, fft_len)
  IN  [i \in 1..Min(output_len, fft_len) |->
         Normalize(result_buffer[i][1], fft_len)]

\* The statement `power<=1;` of the loop of next_power_of_2: a comparison,
\* evaluated and dropped; power keeps its value.
LoopBody(power) == power

\* The value next_power_of_2(n) returns once it is past its loop.
Np2Value(n, power) == IF n <= 1 THEN 1 ELSE power

\* next_power_of_2 can return: by `if n<=1`, or by leaving `while power < n`.
Np2Exits(n, power) == n <= 1 \/ ~(power < n)

\* -------------------------------------------------------- SeismicPipeline

\* 0.0 / 0.0, the mean square of an empty trace: not a number.
NaN == -1

\* The 1e-12 floor of the signal-to-noise divisor, as the number val + 1e-12.
Floor == [eps |-> TRUE, val |-> 0]

\* PipelineConfig::default(); noise_level is 0.01 there and a whole number
\* here, so that noise_level * signal_level stays an integer.
DefaultConfig ==
  [add_noise |-> FALSE, noise_level |-> 1, apply_filter |-> FALSE,
   low_freq |-> 5, high_freq |-> 100, sample_rate |-> 1000]

\* The configurations a caller hands to with_config and set_config.
Configs ==
  [add_noise : BOOLEAN, noise_level : {0, 1}, apply_filter : BOOLEAN,
   low_freq : {5}, high_freq : {100, 250}, sample_rate : {1000}]

\* The caller's reflectivity models: the coefficients ReflectivityModel::new
\* builds for lengths 0, 1, 2 and 3.
Models ==
  { [coefficients |-> <<>>], [coefficients |-> <<2>>],
    [coefficients |-> <<0, 1>>], [coefficients |-> <<1, 0, 0>>] }

\* The caller's wavelets: frequency and samples.
Wavelets ==
  { [frequency |-> 30, samples |-> <<>>], [frequency |-> 30, samples |-> <<3>>],
    [frequency |-> 40, samples |-> <<1, 2>>] }

\* The slices of models a caller hands to process_models.
ModelLists ==
  { <<>>,
    <<[coefficients |-> <<2>>]>>,
    <<[coefficients |-> <<2>>], [coefficients |-> <<>>]>>,
    <<[coefficients |-> <<0, 1>>], [coefficients |-> <<2>>]>> }

\* The slices of wavelets a caller hands to process_wavelets.
WaveletLists ==
  { <<>>,
    <<[frequency |-> 30, samples |-> <<3>>]>>,
    <<[frequency |-> 30, samples |-> <<3>>], [frequency |-> 40, samples |-> <<>>]>>,
    <<[frequency |-> 40, samples |-> <<1, 2>>], [frequency |-> 30, samples |-> <<3>>]>> }

\* ReflectivityModel::stats().sparsity: the nonzero coefficients over the
\* length, as a pair.
sparsity(coefficients) ==
  <<Cardinality({i \in 1..Len(coefficients) : coefficients[i] # 0}),
    Len(coefficients)>>

\* estimate_signal_level: sqrt(sum of squares / len).
estimate_signal_level(trace) ==
  IF Len(trace) = 0 THEN NaN ELSE ISqrt(SumSq(trace) \div Len(trace))

\* A slip: the amplitude is noise_level + signal_level.
add_noise_to_trace_sum(cfg, trace, draws) ==
  LET signal_level == estimate_signal_level(trace)
      noise_amplitude == cfg.noise_level + signal_level
  IN  [i \in 1..Len(trace) |-> trace[i] + noise_amplitude * (draws[i] - 1)]

\* add_noise_to_trace: sample += noise_amplitude * (2 * fastrand::f64() - 1),
\* the draw of sample i being draws[i] / 2.
add_noise_to_trace(cfg, trace, draws) ==
  LET signal_level == estimate_signal_level(trace)
      noise_amplitude == cfg.noise_level * signal_level
  IN  [i \in 1..Len(trace) |-> trace[i] + noise_amplitude * (draws[i] - 1)]

\* A slip: every sum is divided by the full window, 2 * half_window + 1.
apply_moving_average_padded(trace, window_size) ==
  LET half_window == window_size \div 2
      start(i) == IF i - half_window < 0 THEN 0 ELSE i - half_window
      end(i) == Min(i + half_window + 1, Len(trace))
  IN  [j \in 1..Len(trace) |->
         SumSeq(SubSeq(trace, start(j - 1) + 1, end(j - 1)))
           \div (2 * half_window + 1)]

\* apply_moving_average: the mean of trace[start..end] for every index.
apply_moving_average(trace, window_size) ==
  LET half_window == window_size \div 2
      start(i) == IF i - half_window < 0 THEN 0 ELSE i - half_window
      end(i) == Min(i + half_window + 1, Len(trace))
  IN  [j \in 1..Len(trace) |->
         SumSeq(SubSeq(trace, start(j - 1) + 1, end(j - 1)))
           \div (end(j - 1) - start(j - 1))]

\* A slip: the window may be as long as a quarter of the trace.
apply_bandpass_filter_inclusive(cfg, trace) ==
  LET window_size == cfg.sample_rate \div (2 * cfg.high_freq)
  IN  IF window_size > 1 /\ window_size <= Len(trace) \div 4
      THEN apply_moving_average(trace, window_size)
      ELSE trace

\* apply_bandpass_filter: a moving average when 1 < window_size < len / 4.
apply_bandpass_filter(cfg, trace) ==
  LET window_size == cfg.sample_rate \div (2 * cfg.high_freq)
  IN  IF window_size > 1 /\ window_size < Len(trace) \div 4
      THEN apply_moving_average(trace, window_size)
      ELSE trace

\* noise_power of run_forward_modelling, before the clamp: NaN, or a number.
NoisePower(cfg, synthetic_trace) ==
  IF cfg.add_noise
  THEN LET level == estimate_signal_level(synthetic_trace)
       IN  IF level = NaN THEN [nan |-> TRUE, eps |-> FALSE, val |-> 0]
           ELSE [nan |-> FALSE, eps |-> FALSE,
                 val |-> (cfg.noise_level * level) * (cfg.noise_level * level)
                           * Len(synthetic_trace)]
  ELSE [nan |-> FALSE, eps |-> TRUE, val |-> 0]

\* noise_power.max(1e-12): f64::max drops a NaN operand.
ClampNoisePower(p) ==
  IF p.nan \/ (p.val <= 0) THEN Floor ELSE [eps |-> p.eps, val |-> p.val]

\* A slip: the two clones land in each other's field.
ClonedInputsSwapped(coefficients, samples) ==
  [reflectivity |-> samples, wavelet |-> coefficients]

\* The reflectivity and wavelet fields of the result: clones of the inputs.
ClonedInputs(coefficients, samples) ==
  [reflectivity |-> coefficients, wavelet |-> samples]

\* run_forward_modelling from step 2 on, given the trace convolve returned:
\* noise, filter, time vector, statistics, result.  The signal-to-noise
\* ratio is kept as its two operands; processing_time_ms is left out.
RunBody(cfg, coefficients, samples, frequency, convolved, draws) ==
  LET noisy == IF cfg.add_noise
               THEN add_noise_to_trace(cfg, convolved, draws)
               ELSE convolved
      synthetic_trace == IF cfg.apply_filter
                         THEN apply_bandpass_filter(cfg, noisy)
                         ELSE noisy
      cloned == ClonedInputs(coefficients, samples)
  IN  [synthetic_trace |-> synthetic_trace,
       reflectivity |-> cloned.reflectivity,
       wavelet |-> cloned.wavelet,
       time |-> [i \in 1..Len(synthetic_trace) |-> <<i - 1, cfg.sample_rate>>],
       stats |-> [reflectivity_sparsity |-> sparsity(coefficients),
                  wavelet_dominant_freq |-> frequency,
                  signal_power |-> SumSq(synthetic_trace),
                  noise_power |-> ClampNoisePower(NoisePower(cfg, synthetic_trace)),
                  convolution_length |-> Len(synthetic_trace)]]

\* A slip: the flag is left as the caller set it.
ForceNoiseSkipped(cfg) == cfg

\* self.config.add_noise=true of run_monte_carlo.
ForceNoise(cfg) == [cfg EXCEPT !.add_noise = TRUE]

\* A slip: the flag is left forced.
RestoreNoiseSkipped(cfg, original_noise_setting) == cfg

\* self.config.add_noise=original_noise_setting of run_monte_carlo.
RestoreNoise(cfg, original_noise_setting) ==
  [cfg EXCEPT !.add_noise = original_noise_setting]

\* A slip: the result is put in front.
PushFront(results, result) == <<result>> \o results

\* results.push(result)
Push(results, result) == Append(results, result)

\* ------------------------------------------------------------------ state

VARIABLES
  config,        \* SeismicPipeline.config
  model,         \* the caller's ReflectivityModel
  wavelet,       \* the caller's RickerWavelet
  pc,            \* "idle", "np2" (in next_power_of_2), "mc" or "batch" (the for loop of a driver)
  op,            \* the call in progress: "none", "np2", "convolve", "xcorr", "run", "mc",
                 \* "models" (process_models), "wavelets" (process_wavelets)
  signal_a,      \* first operand of the engine call in progress
  signal_b,      \* second operand of the engine call in progress
  np,            \* next_power_of_2: its argument n, its local power, iterations run
  mc,            \* run_monte_carlo: num_realizations, original_noise_setting, results
  batch,         \* process_models, process_wavelets: the slice, the index, results
  ret,           \* what the last completed call returned
  entry_config,  \* history: config when the call in progress (or last completed) began
  noise_calls,   \* history: add_noise_to_trace calls since that call began
  run_log        \* history: results of run_forward_modelling since that call began, in order

vars ==
  <<config, model, wavelet, pc, op, signal_a, signal_b, np, mc, batch, ret,
    entry_config, noise_calls, run_log>>

NoNp == [n |-> 0, power |-> 0, iters |-> 0]

NoMc ==
  [num_realizations |-> 0, i |-> 0, original_noise_setting |-> FALSE,
   results |-> <<>>]

NoBatch == [items |-> <<>>, i |-> 0, results |-> <<>>]

pipeline_vars ==
  <<config, model, wavelet, mc, batch, entry_config, noise_calls, run_log>>

\* A pipeline built by with_config, a model and a wavelet built by the
\* caller, no call in progress.
Init ==
  /\ config \in Configs
  /\ model \in Models
  /\ wavelet \in Wavelets
  /\ pc = "idle"
  /\ op = "none"
  /\ signal_a = <<>>
  /\ signal_b = <<>>
  /\ np = NoNp
  /\ mc = NoMc
  /\ batch = NoBatch
  /\ ret = [op |-> "none"]
  /\ entry_config = config
  /\ noise_calls = 0
  /\ run_log = <<>>

\* A default pipeline and one model and wavelet; the engine is called alone.
EngineInit ==
  /\ config = DefaultConfig
  /\ model = [coefficients |-> <<2>>]
  /\ wavelet = [frequency |-> 30, samples |-> <<3>>]
  /\ pc = "idle"
  /\ op = "none"
  /\ signal_a = <<>>
  /\ signal_b = <<>>
  /\ np = NoNp
  /\ mc = NoMc
  /\ batch = NoBatch
  /\ ret = [op |-> "none"]
  /\ entry_config = config
  /\ noise_calls = 0
  /\ run_log = <<>>

\* ------------------------------------------------------- next_power_of_2

\* Entry of next_power_of_2(n): `let mut power=1`.
EnterNp2(n) == np' = [n |-> n, power |-> 1, iters |-> 0]

\* A caller calls next_power_of_2(n).
NextPow2Call(n) ==
  /\ pc = "idle"
  /\ pc' = "np2"
  /\ op' = "np2"
  /\ EnterNp2(n)
  /\ ret' = [op |-> "none"]
  /\ UNCHANGED <<signal_a, signal_b, pipeline_vars>>

\* One iteration of `while power < n { power<=1; }`.
Np2Iter ==
  /\ pc = "np2"
  /\ np.n > 1
  /\ np.power < np.n
  /\ np' = [np EXCEPT !.power = LoopBody(np.power),
                      !.iters = Min(np.iters + 1, MaxIter)]
  /\ UNCHANGED <<pc, op, signal_a, signal_b, ret, pipeline_vars>>

\* next_power_of_2 returns to the caller that called it directly.
NextPow2Return ==
  /\ pc = "np2"
  /\ op = "np2"
  /\ Np2Exits(np.n, np.power)
  /\ ret' = [op |-> "np2", n |-> np.n, val |-> Np2Value(np.n, np.power)]
  /\ pc' = "idle"
  /\ op' = "none"
  /\ np' = NoNp
  /\ UNCHANGED <<signal_a, signal_b, pipeline_vars>>

\* --------------------------------------------- convolve, cross_correlate

\* convolve(a, b) up to its call of next_power_of_2; an empty operand
\* returns vec![] at once.
ConvolveCall(a, b) ==
  /\ pc = "idle"
  /\ IF a = <<>> \/ b = <<>>
     THEN /\ ret' = [op |-> "convolve", a |-> a, b |-> b, val |-> <<>>]
          /\ UNCHANGED <<pc, op, signal_a, signal_b, np>>
     ELSE /\ pc' = "np2"
          /\ op' = "convolve"
          /\ signal_a' = a
          /\ signal_b' = b
          /\ EnterNp2(Len(a) + Len(b) - 1)
          /\ ret' = [op |-> "none"]
  /\ UNCHANGED pipeline_vars

\* convolve from the return of next_power_of_2 to its own return.
ConvolveReturn ==
  /\ pc = "np2"
  /\ op = "convolve"
  /\ Np2Exits(np.n, np.power)
  /\ \E fft_len \in {Np2Value(np.n, np.power)} :
       \E result \in {ConvolveBody(signal_a, signal_b, fft_len)} :
         ret' = [op |-> "convolve", a |-> signal_a, b |-> signal_b,
                 fft_len |-> fft_len, val |-> result]
  /\ pc' = "idle"
  /\ op' = "none"
  /\ signal_a' = <<>>
  /\ signal_b' = <<>>
  /\ np' = NoNp
  /\ UNCHANGED pipeline_vars

\* cross_correlate(a, b) up to its call of next_power_of_2.
CrossCorrelateCall(a, b) ==
  /\ pc = "idle"
  /\ IF a = <<>> \/ b = <<>>
     THEN /\ ret' = [op |-> "xcorr", a |-> a, b |-> b, val |-> <<>>]
          /\ UNCHANGED <<pc, op, signal_a, signal_b, np>>
     ELSE /\ pc' = "np2"
          /\ op' = "xcorr"
          /\ signal_a' = a
          /\ signal_b' = b
          /\ EnterNp2(Len(a) + Len(b) - 1)
          /\ ret' = [op |-> "none"]
  /\ UNCHANGED pipeline_vars

\* auto_correlate(signal) is cross_correlate(signal, signal).
AutoCorrelateCall(signal) == CrossCorrelateCall(signal, signal)

\* cross_correlate from the return of next_power_of_2 to its own return.
CrossCorrelateReturn ==
  /\ pc = "np2"
  /\ op = "xcorr"
  /\ Np2Exits(np.n, np.power)
  /\ \E fft_len \in {Np2Value(np.n, np.power)} :
       \E result \in {CrossCorrelateBody(signal_a, signal_b, fft_len)} :
         ret' = [op |-> "xcorr", a |-> signal_a, b |-> signal_b,
                 fft_len |-> fft_len, val |-> result]
  /\ pc' = "idle"
  /\ op' = "none"
  /\ signal_a' = <<>>
  /\ signal_b' = <<>>
  /\ np' = NoNp
  /\ UNCHANGED pipeline_vars

\* The steps the engine takes by itself once called.
EngineStep == Np2Iter \/ NextPow2Return \/ ConvolveReturn \/ CrossCorrelateReturn

EngineNext ==
  \/ \E n \in 0..MaxN : NextPow2Call(n)
  \/ \E a \in Signals, b \in Signals : ConvolveCall(a, b)
  \/ \E a \in Signals, b \in Signals : CrossCorrelateCall(a, b)
  \/ \E a \in Signals : AutoCorrelateCall(a)
  \/ Np2Iter
  \/ NextPow2Return
  \/ ConvolveReturn
  \/ CrossCorrelateReturn

\* The engine called by a caller of its own.
EngineSpec == EngineInit /\ [][EngineNext]_vars

\* A call in progress goes on running: the program is one thread.
EngineFairSpec == EngineSpec /\ WF_vars(EngineStep)

\* -------------------------------------------------------------- pipeline

\* set_config(c).
SetConfig(c) ==
  /\ pc = "idle"
  /\ config' = c
  /\ ret' = [op |-> "set_config"]
  /\ entry_config' = c
  /\ noise_calls' = 0
  /\ run_log' = <<>>
  /\ UNCHANGED <<model, wavelet, pc, op, signal_a, signal_b, np, mc, batch>>

\* History of one completed run_forward_modelling: whether its step 2 called
\* add_noise_to_trace, and its result.
NoteRun(result) ==
  /\ noise_calls' = noise_calls + (IF config.add_noise THEN 1 ELSE 0)
  /\ run_log' = Append(run_log, result)

\* run_forward_modelling whose convolve returns vec![] at once (an empty
\* operand): the whole call.
RunOnEmpty == RunBody(config, model.coefficients, wavelet.samples,
                      wavelet.frequency, <<>>, <<>>)

\* run_forward_modelling(model, wavelet) up to the call of next_power_of_2
\* in convolve; with an empty operand, the whole call.
RunCall ==
  /\ pc = "idle"
  /\ entry_config' = config
  /\ IF model.coefficients = <<>> \/ wavelet.samples = <<>>
     THEN /\ \E result \in {RunOnEmpty} :
               /\ ret' = [op |-> "run", val |-> result]
               /\ run_log' = <<result>>
          /\ noise_calls' = (IF config.add_noise THEN 1 ELSE 0)
          /\ UNCHANGED <<pc, op, signal_a, signal_b, np>>
     ELSE /\ pc' = "np2"
          /\ op' = "run"
          /\ signal_a' = model.coefficients
          /\ signal_b' = wavelet.samples
          /\ EnterNp2(Len(model.coefficients) + Len(wavelet.samples) - 1)
          /\ ret' = [op |-> "none"]
          /\ noise_calls' = 0
          /\ run_log' = <<>>
  /\ UNCHANGED <<config, model, wavelet, mc, batch>>

\* run_forward_modelling from the return of next_power_of_2 to its own
\* return: the rest of convolve, then steps 2 to 5.
RunReturn ==
  /\ pc = "np2"
  /\ op = "run"
  /\ Np2Exits(np.n, np.power)
  /\ \E convolved \in {ConvolveBody(signal_a, signal_b, Np2Value(np.n, np.power))} :
       \E draws \in [1..Len(convolved) -> Rand] :
         \E result \in {RunBody(config, model.coefficients, wavelet.samples,
                                wavelet.frequency, convolved, draws)} :
           /\ ret' = [op |-> "run", val |-> result]
           /\ NoteRun(result)
  /\ pc' = "idle"
  /\ op' = "none"
  /\ signal_a' = <<>>
  /\ signal_b' = <<>>
  /\ np' = NoNp
  /\ UNCHANGED <<config, model, wavelet, mc, batch, entry_config>>

\* run_monte_carlo(model, wavelet, n) up to its for loop: the flag is saved
\* and forced.
McCall(n) ==
  /\ pc = "idle"
  /\ pc' = "mc"
  /\ op' = "mc"
  /\ mc' = [num_realizations |-> n, i |-> 0,
            original_noise_setting |-> config.add_noise, results |-> <<>>]
  /\ config' = ForceNoise(config)
  /\ ret' = [op |-> "none"]
  /\ entry_config' = config
  /\ noise_calls' = 0
  /\ run_log' = <<>>
  /\ UNCHANGED <<model, wavelet, signal_a, signal_b, np, batch>>

\* One pass of `for i in 0..num_realizations` up to the call of
\* next_power_of_2 in convolve; with an empty operand, the whole pass.
McIterate ==
  /\ pc = "mc"
  /\ mc.i < mc.num_realizations
  /\ IF model.coefficients = <<>> \/ wavelet.samples = <<>>
     THEN /\ \E result \in {RunOnEmpty} :
               /\ mc' = [mc EXCEPT !.results = Push(mc.results, result),
                                   !.i = mc.i + 1]
               /\ NoteRun(result)
          /\ UNCHANGED <<pc, signal_a, signal_b, np>>
     ELSE /\ pc' = "np2"
          /\ signal_a' = model.coefficients
          /\ signal_b' = wavelet.samples
          /\ EnterNp2(Len(model.coefficients) + Len(wavelet.samples) - 1)
          /\ UNCHANGED <<mc, noise_calls, run_log>>
  /\ UNCHANGED <<config, model, wavelet, op, ret, batch, entry_config>>

\* The rest of the pass: run_forward_modelling returns, `?` passes its Ok
\* on, the result is pushed.  (No Err arises: convolve and
\* apply_bandpass_filter return nothing but Ok.)
McRunReturn ==
  /\ pc = "np2"
  /\ op = "mc"
  /\ Np2Exits(np.n, np.power)
  /\ \E convolved \in {ConvolveBody(signal_a, signal_b, Np2Value(np.n, np.power))} :
       \E draws \in [1..Len(convolved) -> Rand] :
         \E result \in {RunBody(config, model.coefficients, wavelet.samples,
                                wavelet.frequency, convolved, draws)} :
           /\ mc' = [mc EXCEPT !.results = Push(mc.results, result),
                               !.i = mc.i + 1]
           /\ NoteRun(result)
  /\ pc' = "mc"
  /\ signal_a' = <<>>
  /\ signal_b' = <<>>
  /\ np' = NoNp
  /\ UNCHANGED <<config, model, wavelet, op, ret, batch, entry_config>>

\* run_monte_carlo past its loop: the flag is restored, Ok(results).
McReturn ==
  /\ pc = "mc"
  /\ ~(mc.i < mc.num_realizations)
  /\ config' = RestoreNoise(config, mc.original_noise_setting)
  /\ ret' = [op |-> "mc", n |-> mc.num_realizations, val |-> mc.results]
  /\ pc' = "idle"
  /\ op' = "none"
  /\ mc' = NoMc
  /\ UNCHANGED <<model, wavelet, signal_a, signal_b, np, batch, entry_config,
                 noise_calls, run_log>>

\* ------------------------------------------------------- BatchProcessor

\* A slip: every pass takes the first model of the slice.
BatchModelFirst == IF op = "models" THEN batch.items[1] ELSE model

\* The model of the pass in progress: models[i] in process_models, the one
\* model in process_wavelets.
BatchModel == IF op = "models" THEN batch.items[batch.i + 1] ELSE model

\* The wavelet of the pass in progress: wavelets[i] in process_wavelets, the
\* one wavelet in process_models.
BatchWavelet == IF op = "wavelets" THEN batch.items[batch.i + 1] ELSE wavelet

\* A driver of the BatchProcessor up to its for loop.
BatchCall(driver, items) ==
  /\ pc = "idle"
  /\ pc' = "batch"
  /\ op' = driver
  /\ batch' = [items |-> items, i |-> 0, results |-> <<>>]
  /\ ret' = [op |-> "none"]
  /\ entry_config' = config
  /\ noise_calls' = 0
  /\ run_log' = <<>>
  /\ UNCHANGED <<config, model, wavelet, signal_a, signal_b, np, mc>>

\* process_models(models, wavelet), the wavelet being the caller's.
ProcessModelsCall(models) == BatchCall("models", models)

\* process_wavelets(model, wavelets), the model being the caller's.
ProcessWaveletsCall(wavelets) == BatchCall("wavelets", wavelets)

\* One pass of the for loop of a driver up to the call of next_power_of_2
\* in convolve; with an empty operand, the whole pass.
BatchIterate ==
  /\ pc = "batch"
  /\ batch.i < Len(batch.items)
  /\ IF BatchModel.coefficients = <<>> \/ BatchWavelet.samples = <<>>
     THEN /\ \E result \in {RunBody(config, BatchModel.coefficients,
                                     BatchWavelet.samples,
                                     BatchWavelet.frequency, <<>>, <<>>)} :
               /\ batch' = [batch EXCEPT !.results = Push(batch.results, result),
                                         !.i = batch.i + 1]
               /\ NoteRun(result)
          /\ UNCHANGED <<pc, signal_a, signal_b, np>>
     ELSE /\ pc' = "np2"
          /\ signal_a' = BatchModel.coefficients
          /\ signal_b' = BatchWavelet.samples
          /\ EnterNp2(Len(BatchModel.coefficients) + Len(BatchWavelet.samples) - 1)
          /\ UNCHANGED <<batch, noise_calls, run_log>>
  /\ UNCHANGED <<config, model, wavelet, op, ret, mc, entry_config>>

\* The rest of the pass: run_forward_modelling returns, `?` passes its Ok
\* on, the result is pushed.
BatchRunReturn ==
  /\ pc = "np2"
  /\ op \in {"models", "wavelets"}
  /\ Np2Exits(np.n, np.power)
  /\ \E convolved \in {ConvolveBody(signal_a, signal_b, Np2Value(np.n, np.power))} :
       \E draws \in [1..Len(convolved) -> Rand] :
         \E result \in {RunBody(config, BatchModel.coefficients,
                                BatchWavelet.samples, BatchWavelet.frequency,
                                convolved, draws)} :
           /\ batch' = [batch EXCEPT !.results = Push(batch.results, result),
                                     !.i = batch.i + 1]
           /\ NoteRun(result)
  /\ pc' = "batch"
  /\ signal_a' = <<>>
  /\ signal_b' = <<>>
  /\ np' = NoNp
  /\ UNCHANGED <<config, model, wavelet, op, ret, mc, entry_config>>

\* A driver past its loop: Ok(results).
BatchReturn ==
  /\ pc = "batch"
  /\ ~(batch.i < Len(batch.items))
  /\ ret' = [op |-> op, items |-> batch.items, val |-> batch.results]
  /\ pc' = "idle"
  /\ op' = "none"
  /\ batch' = NoBatch
  /\ UNCHANGED <<config, model, wavelet, signal_a, signal_b, np, mc,
                 entry_config, noise_calls, run_log>>

\* The steps the pipeline takes by itself once called.
PipelineStep ==
  \/ Np2Iter
  \/ RunReturn
  \/ McIterate
  \/ McRunReturn
  \/ McReturn
  \/ BatchIterate
  \/ BatchRunReturn
  \/ BatchReturn

Next ==
  \/ \E c \in Configs : SetConfig(c)
  \/ RunCall
  \/ \E n \in 0..MaxRealizations : McCall(n)
  \/ \E models \in ModelLists : ProcessModelsCall(models)
  \/ \E wavelets \in WaveletLists : ProcessWaveletsCall(wavelets)
  \/ Np2Iter
  \/ RunReturn
  \/ McIterate
  \/ McRunReturn
  \/ McReturn
  \/ BatchIterate
  \/ BatchRunReturn
  \/ BatchReturn

\* The pipeline, its configuration, its two drivers and the batch drivers.
Spec == Init /\ [][Next]_vars

\* A call in progress goes on running: the program is one thread.
FairSpec == Spec /\ WF_vars(PipelineStep)

\* ------------------------------------------- the `?` exits of the drivers

\* The errors run_forward_modelling hands on with its two `?`: the one of
\* convolve and the one of apply_bandpass_filter.  Both callees are declared
\* to return a Result; as they are written they return nothing but Ok.
Errors == {"convolve", "apply_bandpass_filter"}

\* A slip: the results computed so far are handed back with the error.
PropagateWithPartial(driver, k, results, e) ==
  [op |-> driver, k |-> k, err |-> e, val |-> results]

\* `?` on an Err in pass k of a driver: the driver returns Err(e) and its
\* local results is dropped.
Propagate(driver, k, results, e) == [op |-> driver, k |-> k, err |-> e]

\* run_monte_carlo in a pass whose run_forward_modelling returns Err(e):
\* `?` returns from line 159, and line 164 is not reached.
McRunFails(e) ==
  /\ pc = "mc"
  /\ mc.i < mc.num_realizations
  /\ ret' = Propagate("mc", mc.i, mc.results, e)
  /\ pc' = "idle"
  /\ op' = "none"
  /\ mc' = NoMc
  /\ UNCHANGED <<config, model, wavelet, signal_a, signal_b, np, batch,
                 entry_config, noise_calls, run_log>>

\* A batch driver in a pass whose run_forward_modelling returns Err(e).
BatchRunFails(e) ==
  /\ pc = "batch"
  /\ batch.i < Len(batch.items)
  /\ ret' = Propagate(op, batch.i, batch.results, e)
  /\ pc' = "idle"
  /\ op' = "none"
  /\ batch' = NoBatch
  /\ UNCHANGED <<config, model, wavelet, signal_a, signal_b, np, mc,
                 entry_config, noise_calls, run_log>>

DriverNext ==
  \/ Next
  \/ \E e \in Errors : McRunFails(e)
  \/ \E e \in Errors : BatchRunFails(e)

\* The drivers against every outcome the Result of run_forward_modelling
\* allows: the pipeline as above, and a run may also return an Err.
DriverSpec == Init /\ [][DriverNext]_vars

\* ------------------------------------------- the steps taken one by one

\* The configurations the steps are tried under: those of Configs, and a
\* high_freq that makes the window 1.
StepConfigs ==
  [add_noise : BOOLEAN, noise_level : {0, 1}, apply_filter : BOOLEAN,
   low_freq : {5}, high_freq : {100, 250, 500}, sample_rate : {1000}]

\* The traces the steps are tried on: of 0, 1, 2, 3 and 4 samples, of 8 (a
\* quarter of it is the window 2) and of 12 (the window 2 is under a quarter).
Traces ==
  { <<>>, <<6>>, <<3, -4>>, <<1, 2, 6>>, <<0, 5, 0, -5>>,
    <<0, 4, 8, 0, 0, -6, 0, 2>>,
    <<0, 4, 8, 0, 0, -6, 0, 2, 2, 0, 10, 0>> }

\* The arguments RickerWavelet::new is tried on; dt is in milliseconds.
Frequencies == {-5, 0, 30}

SampleIntervals == {-1, 0, 1}

\* generate_ricker: one sample for every time, a function of the time and
\* the frequency, kept as the pair of them.
generate_ricker(time, frequency) ==
  [i \in 1..Len(time) |-> [t |-> time[i], frequency |-> frequency]]

\* RickerWavelet::new.  time[i] = (i - length / 2.0) * dt, kept as the pair
\* of 2 * i - length (twice the factor) and dt.
RickerWavelet_new(frequency, dt, length) ==
  IF frequency <= 0
  THEN [err |-> "Frequency must be positive"]
  ELSE IF dt <= 0
  THEN [err |-> "Sample interval must be positive"]
  ELSE LET time == [i \in 1..length |-> <<2 * (i - 1) - length, dt>>]
       IN  [frequency |-> frequency, dt |-> dt,
            samples |-> generate_ricker(time, frequency), time |-> time]

\* A trace and a configuration, nothing in progress.
ComponentInit ==
  /\ config \in StepConfigs
  /\ signal_a \in Traces
  /\ model = [coefficients |-> <<2>>]
  /\ wavelet = [frequency |-> 30, samples |-> <<3>>]
  /\ pc = "idle"
  /\ op = "none"
  /\ signal_b = <<>>
  /\ np = NoNp
  /\ mc = NoMc
  /\ batch = NoBatch
  /\ ret = [op |-> "none"]
  /\ entry_config = config
  /\ noise_calls = 0
  /\ run_log = <<>>

component_frame ==
  <<config, model, wavelet, pc, op, signal_a, signal_b, np, mc, batch,
    entry_config, noise_calls, run_log>>

\* add_noise_to_trace on the trace.
AddNoiseStep ==
  /\ Len(signal_a) <= MaxNoiseLen
  /\ \E draws \in [1..Len(signal_a) -> Rand] :
       ret' = [op |-> "add_noise_to_trace", before |-> signal_a,
               draws |-> draws,
               val |-> add_noise_to_trace(config, signal_a, draws)]
  /\ UNCHANGED component_frame

\* apply_bandpass_filter on the trace.
FilterStep ==
  /\ ret' = [op |-> "apply_bandpass_filter", before |-> signal_a,
             val |-> apply_bandpass_filter(config, signal_a)]
  /\ UNCHANGED component_frame

\* apply_moving_average on the trace.
MovingAverageStep(window_size) ==
  /\ ret' = [op |-> "apply_moving_average", before |-> signal_a,
             window_size |-> window_size,
             val |-> apply_moving_average(signal_a, window_size)]
  /\ UNCHANGED component_frame

\* Steps 2 to 5 of run_forward_modelling on the trace, as the trace step 1
\* handed over.
RunStepsOn ==
  /\ Len(signal_a) <= MaxNoiseLen
  /\ \E draws \in [1..Len(signal_a) -> Rand] :
       \E result \in {RunBody(config, model.coefficients, wavelet.samples,
                              wavelet.frequency, signal_a, draws)} :
         ret' = [op |-> "steps", convolved |-> signal_a, draws |-> draws,
                 val |-> result]
  /\ UNCHANGED component_frame

\* RickerWavelet::new(frequency, dt, length).
RickerNew(frequency, dt, length) ==
  /\ ret' = [op |-> "RickerWavelet::new", frequency |-> frequency, dt |-> dt,
             length |-> length,
             val |-> RickerWavelet_new(frequency, dt, length)]
  /\ UNCHANGED component_frame

ComponentNext ==
  \/ AddNoiseStep
  \/ FilterStep
  \/ \E window_size \in 0..MaxWindow : MovingAverageStep(window_size)
  \/ RunStepsOn
  \/ \E frequency \in Frequencies, dt \in SampleIntervals, length \in 0..MaxLength :
       RickerNew(frequency, dt, length)

\* The steps of the pipeline and the wavelet constructor, each called alone.
ComponentSpec == ComponentInit /\ [][ComponentNext]_vars

\* ------------------------------------------------- claims on the engine

\* The reference: sum over i + j = k of a[i] * b[j], by the double loop.
DirectConvolution(a, b) ==
  [k \in 1..(Len(a) + Len(b) - 1) |->
     SumSeq([i \in 1..Len(a) |->
               IF k - i + 1 >= 1 /\ k - i + 1 <= Len(b)
               THEN a[i] * b[k - i + 1] ELSE 0])]

\* The smallest power of two that is >= n, for n >= 1: the one power of two
\* in n..(2n - 1).
SmallestPow2Geq(n) == CHOOSE p \in {2^k : k \in 0..n} : n <= p /\ p < 2 * n

\* C1: every call of convolve on two nonempty signals returns, and what it
\* returns is the linear convolution of its operands as the direct double
\* loop computes it.
C1_ConvolveIsLinearConvolution ==
  (pc = "np2" /\ op = "convolve")
    ~> (ret.op = "convolve" /\ ret.val = DirectConvolution(ret.a, ret.b))

\* C2: convolve on two nonempty signals returns len(a)+len(b)-1 samples
\* (never the padded length), and what convolve returns is empty exactly
\* when an operand is empty.
C2_ConvolveLength ==
  /\ (pc = "np2" /\ op = "convolve")
       ~> (ret.op = "convolve" /\ Len(ret.val) = Len(ret.a) + Len(ret.b) - 1)
  /\ [](ret.op = "convolve"
          => ((ret.val = <<>>) <=> (ret.a = <<>> \/ ret.b = <<>>)))

\* C3: every call of next_power_of_2(n) returns: 1 when n <= 1, and else
\* the smallest power of two >= n (so n itself when n is a power of two).
C3_NextPowerOf2 ==
  (pc = "np2" /\ op = "np2")
    ~> (/\ ret.op = "np2"
        /\ ret.val = IF ret.n <= 1 THEN 1 ELSE SmallestPow2Geq(ret.n))

\* C4: every call convolve(a, b) returns, and returns what convolve(b, a)
\* computes: the same length and the same samples.
C4_ConvolveCommutes ==
  (pc = "np2" /\ op = "convolve")
    ~> (/\ ret.op = "convolve"
        /\ ret.a # <<>>
        /\ ret.b # <<>>
        /\ ret.val = ConvolveBody(ret.b, ret.a, ret.fft_len))

\* C5: every call auto_correlate(a) on a signal of nonzero energy returns a
\* sequence whose zero-lag sample (the first) is the sum of a[i]^2 and is of
\* the largest magnitude.
C5_AutoCorrelationPeak ==
  (pc = "np2" /\ op = "xcorr" /\ signal_a = signal_b /\ SumSq(signal_a) # 0)
    ~> (/\ ret.op = "xcorr"
        /\ ret.a = ret.b
        /\ Len(ret.val) >= 1
        /\ ret.val[1] = SumSq(ret.a)
        /\ \A k \in 1..Len(ret.val) : Abs(ret.val[k]) <= Abs(ret.val[1]))

\* ----------------------------------------------- claims on the pipeline

\* The fields of the configuration other than add_noise.
OtherFields(cfg) ==
  <<cfg.noise_level, cfg.apply_filter, cfg.low_freq, cfg.high_freq,
    cfg.sample_rate>>

\* The length convolve gives the trace: empty when an operand is empty.
TraceLen(coefficients, samples) ==
  IF coefficients = <<>> \/ samples = <<>> THEN 0
  ELSE Len(coefficients) + Len(samples) - 1

\* C6: every call of run_forward_modelling on a nonempty model (L samples)
\* and a nonempty wavelet (W samples) returns a result whose trace, time
\* vector and convolution_length are L+W-1, whose time[i] is i/sample_rate,
\* and whose reflectivity and wavelet have L and W samples.
C6_RunResultShape ==
  (pc = "np2" /\ op = "run")
    ~> (/\ ret.op = "run"
        /\ LET r == ret.val
               L == Len(model.coefficients)
               W == Len(wavelet.samples)
           IN  /\ Len(r.synthetic_trace) = L + W - 1
               /\ Len(r.time) = L + W - 1
               /\ r.stats.convolution_length = L + W - 1
               /\ \A i \in 1..Len(r.time) : r.time[i] = <<i - 1, config.sample_rate>>
               /\ Len(r.reflectivity) = L
               /\ Len(r.wavelet) = W)

C7_Witness ==
  /\ ret.op = "mc"
  /\ ret.n = 2
  /\ Len(ret.val) = 2
  /\ Len(ret.val[1].synthetic_trace) = 1
  /\ ~entry_config.add_noise

C9_NoiseForcedInEveryRealization ==
  /\ (op = "mc")
       => (/\ config.add_noise
           /\ noise_calls = mc.i
           /\ OtherFields(config) = OtherFields(entry_config))
  /\ (ret.op = "mc")
       => (/\ noise_calls = ret.n
           /\ OtherFields(config) = OtherFields(entry_config))

\* C9 witness: a call begun with add_noise off has run two realizations on
\* a nonempty model and wavelet, the second of them still in progress.
C9_Witness ==
  /\ op = "mc"
  /\ pc = "np2"
  /\ mc.i = 1
  /\ noise_calls = 1
  /\ ~entry_config.add_noise

\* The driver in progress, or else the one that returned last.
CallKind == IF op # "none" THEN op ELSE ret.op

\* The slice handed to that driver, when it is a batch driver.
CallItems == IF op # "none" THEN batch.items ELSE ret.items

\* The model handed to the i-th run of that driver.
RunModelOf(i) == IF CallKind = "models" THEN CallItems[i] ELSE model

\* The wavelet handed to the i-th run of that driver.
RunWaveletOf(i) == IF CallKind = "wavelets" THEN CallItems[i] ELSE wavelet

\* C10: no step changes the caller's model or wavelet, nor the slice a
\* batch driver was handed, and every result run_forward_modelling has
\* produced, alone or under a driver, carries the coefficients of the model
\* and the samples of the wavelet it was handed, as they are.
C10_InputsNeverMutated ==
  /\ [][/\ model' = model
        /\ wavelet' = wavelet
        /\ (op \in {"models", "wavelets"} /\ op' = op)
             => (batch'.items = batch.items)
        /\ (op \in {"models", "wavelets"} /\ op' = "none")
             => (ret'.items = batch.items)]_vars
  /\ [](\A i \in 1..Len(run_log) :
          /\ run_log[i].reflectivity = RunModelOf(i).coefficients
          /\ run_log[i].wavelet = RunWaveletOf(i).samples)
  /\ []((ret.op = "run")
          => (/\ ret.val.reflectivity = model.coefficients
              /\ ret.val.wavelet = wavelet.samples))
  /\ []((ret.op \in {"mc", "models", "wavelets"})
          => (\A i \in 1..Len(ret.val) :
                /\ ret.val[i].reflectivity = RunModelOf(i).coefficients
                /\ ret.val[i].wavelet = RunWaveletOf(i).samples))

\* C10 witness: a run with noise and filtering on, on a nonempty model and
\* wavelet, has returned a trace that the noise changed.
C10_Witness ==
  /\ ret.op = "run"
  /\ entry_config.add_noise
  /\ entry_config.apply_filter
  /\ entry_config.noise_level > 0
  /\ model.coefficients # <<>>
  /\ wavelet.samples # <<>>
  /\ ret.val.synthetic_trace # <<model.coefficients[1] * wavelet.samples[1]>>

\* ------------------------------------------ claims on the batch drivers

\* Result r is the one of the i-th element: it carries the coefficients of
\* the model and the samples and frequency of the wavelet of pass i.
FromElement(r, i) ==
  /\ r.reflectivity = RunModelOf(i).coefficients
  /\ r.wavelet = RunWaveletOf(i).samples
  /\ r.stats.wavelet_dominant_freq = RunWaveletOf(i).frequency

\* C11: while a batch driver is in progress it has completed one run per
\* element passed so far, in the order of the slice, and the configuration
\* is the one it began with; when it has returned, its results are as many
\* as the elements, they are the results of those runs in that order, and
\* the i-th is the one of the i-th element.
C11_BatchOneRunPerElementInOrder ==
  /\ (op \in {"models", "wavelets"})
       => (/\ Len(run_log) = batch.i
           /\ batch.results = run_log
           /\ config = entry_config
           /\ \A i \in 1..Len(run_log) : FromElement(run_log[i], i))
  /\ (ret.op \in {"models", "wavelets"})
       => (/\ Len(ret.val) = Len(ret.items)
           /\ ret.val = run_log
           /\ config = entry_config
           /\ \A i \in 1..Len(ret.val) : FromElement(ret.val[i], i))

\* C11 witness: process_models has returned on a slice of two models that
\* differ, so the order of its two results shows.
C11_Witness ==
  /\ ret.op = "models"
  /\ Len(ret.items) = 2
  /\ Len(ret.val) = 2
  /\ ret.items[1] # ret.items[2]
  /\ ret.val[1] # ret.val[2]

\* The last call returned an error.
Failed == "err" \in DOMAIN ret

\* C12: a driver whose run for element k returns an error returns that error
\* in the same step; once it has, the runs completed are the k before it and
\* no other, and what it returned carries no result.
C12_FailFast ==
  /\ [][(~Failed /\ Failed')
          => (/\ op \in {"mc", "models", "wavelets"}
              /\ op' = "none"
              /\ pc' = "idle"
              /\ ret'.op = op
              /\ ret'.err \in Errors
              /\ ret'.k = Len(run_log)
              /\ run_log' = run_log)]_vars
  /\ [](Failed
          => (/\ op = "none"
              /\ Len(run_log) = ret.k
              /\ "val" \notin DOMAIN ret))

\* C12 witness: a driver has failed on its second element, the result of
\* the first having been computed.
C12_Witness ==
  /\ Failed
  /\ ret.k = 1
  /\ Len(run_log) = 1

\* --------------------------------------- claims on the steps one by one

\* C13: in the result of steps 2 to 5, noise_power is, when add_noise is
\* set, amplitude^2 * N clamped to the floor, with N the length of the trace
\* and amplitude = noise_level * the level of the trace as step 1 handed it
\* over (before the noise); it is the floor when add_noise is not set; and
\* the divisor is never below the floor.
C13_NoisePowerFromInjectedAmplitude ==
  (ret.op = "steps")
    => LET level == estimate_signal_level(ret.convolved)
           amplitude == config.noise_level * level
           N == Len(ret.val.synthetic_trace)
           noise_power == ret.val.stats.noise_power
       IN  /\ config.add_noise
                => noise_power
                     = ClampNoisePower([nan |-> level = NaN, eps |-> FALSE,
                                        val |-> amplitude * amplitude * N])
           /\ ~config.add_noise => noise_power = Floor
           /\ noise_power.eps \/ noise_power.val > 0

WindowOf(cfg) == cfg.sample_rate \div (2 * cfg.high_freq)

\* C15: apply_bandpass_filter returns a trace of the length it was given,
\* and returns the trace as it was unless 1 < window < len(trace) / 4.
C15_LowPassOnlyInsideWindowRange ==
  (ret.op = "apply_bandpass_filter")
    => (/\ Len(ret.val) = Len(ret.before)
        /\ ~(1 < WindowOf(config) /\ WindowOf(config) < Len(ret.before) \div 4)
             => (ret.val = ret.before))

\* C15 witness: the filter was applied to a trace whose quarter is exactly
\* the window, which is above 1, and which the moving average of that
\* window would change.
C15_Witness ==
  /\ ret.op = "apply_bandpass_filter"
  /\ WindowOf(config) > 1
  /\ WindowOf(config) = Len(ret.before) \div 4
  /\ apply_moving_average(ret.before, WindowOf(config)) # ret.before

\* C16: RickerWavelet::new returns an error when frequency <= 0, dt <= 0 or
\* length = 0, and else a wavelet whose samples and time have length
\* elements.
C16_RickerNewRejectsInvalid ==
  (ret.op = "RickerWavelet::new")
    => IF ret.frequency <= 0 \/ ret.dt <= 0 \/ ret.length = 0
       THEN "err" \in DOMAIN ret.val
       ELSE /\ "err" \notin DOMAIN ret.val
            /\ Len(ret.val.samples) = ret.length
            /\ Len(ret.val.time) = ret.length

\* The sum of the samples lo..hi (indices from 0) of a trace.
RECURSIVE SumRange(_, _, _)
SumRange(trace, lo, hi) ==
  IF hi < lo THEN 0 ELSE trace[hi + 1] + SumRange(trace, lo, hi - 1)

\* C17: apply_moving_average returns, at every index i, the mean of the
\* samples it was given at max(0, i - half) .. min(len - 1, i + half), half
\* being window_size / 2; the window holds at least one sample and lies
\* within the trace.
C17_MovingAverageOfOriginalSamples ==
  (ret.op = "apply_moving_average")
    => (/\ Len(ret.val) = Len(ret.before)
        /\ \A i \in 0..(Len(ret.before) - 1) :
             LET half == ret.window_size \div 2
                 lo == IF i - half < 0 THEN 0 ELSE i - half
                 hi == IF i + half > Len(ret.before) - 1
                       THEN Len(ret.before) - 1 ELSE i + half
                 count == hi - lo + 1
             IN  /\ count >= 1
                 /\ 0 <= lo
                 /\ hi <= Len(ret.before) - 1
                 /\ ret.val[i + 1] = SumRange(ret.before, lo, hi) \div count)

\* C17 witness: a window of half 1 or more was run over a trace of three
\* samples or more, whose edge windows are cut short, and changed it.
C17_Witness ==
  /\ ret.op = "apply_moving_average"
  /\ ret.window_size >= 2
  /\ Len(ret.before) >= 3
  /\ ret.val # ret.before
  /\ ret.before[1] + ret.before[2] # 0

\* C18: every iteration of the loop of next_power_of_2 raises power, and
\* every call of next_power_of_2, alone or from convolve or cross_correlate,
\* is left.
C18_NextPowerOf2Terminates ==
  /\ [][(pc = "np2" /\ pc' = "np2" /\ np' # np) => (np'.power > np.power)]_vars
  /\ (pc = "np2") ~> (pc = "idle")

====
